---- MODULE Spec2Model ----
(***************************************************************************)
(* KnightsOfNearEngine (src/main.py): the fungible KON ledger with         *)
(* transfer fee and allowances, the Round Table seat registry and the KOK  *)
(* collectible registry, as one state machine.                             *)
(*                                                                         *)
(* Strings are sequences of one-character strings, so that address         *)
(* normalisation is computed character by character as the code does.      *)
(* A Python dict is a function whose DOMAIN is the set of keys present.    *)
(* Every engine method is an operator from an engine record and the        *)
(* method's arguments to [eng |-> the engine afterwards, err |-> "ok" or   *)
(* the name of the exception raised]; the actions apply these operators.   *)
(***************************************************************************)
EXTENDS Integers, Sequences, FiniteSets, TLC

(***************************************************************************)
(* Strings                                                                 *)
(***************************************************************************)
Rep(c, n) == [i \in 1..n |-> c]

UpperLetters == <<"A","B","C","D","E","F","G","H","I","J","K","L","M","N","O","P","Q","R","S","T","U","V","W","X","Y","Z">>

LowerLetters == <<"a","b","c","d","e","f","g","h","i","j","k","l","m","n","o","p","q","r","s","t","u","v","w","x","y","z">>

\* str.lower() on one character
LowerChar(c) ==
    IF \E i \in 1..Len(UpperLetters) : UpperLetters[i] = c
    THEN LowerLetters[CHOOSE i \in 1..Len(UpperLetters) : UpperLetters[i] = c]
    ELSE c

\* str.lower()
Lower(s) == [i \in 1..Len(s) |-> LowerChar(s[i])]

IsSpace(c) == c \in {" ", "\t", "\n"}

\* str.strip(): drop the leading and the trailing whitespace
Strip(s) ==
    LET keep  == {i \in 1..Len(s) : ~IsSpace(s[i])}
        first == CHOOSE i \in keep : \A j \in keep : i <= j
        final == CHOOSE i \in keep : \A j \in keep : j <= i
    IN IF keep = {} THEN <<>> ELSE SubSeq(s, first, final)

\* str.startswith("0x")
StartsWith0x(s) == Len(s) >= 2 /\ s[1] = "0" /\ s[2] = "x"

\* str.zfill(width): zeros on the left, after a leading sign if there is one
ZFill(s, width) ==
    IF Len(s) >= width THEN s
    ELSE IF Len(s) > 0 /\ s[1] \in {"+", "-"}
         THEN <<s[1]>> \o Rep("0", width - Len(s)) \o SubSeq(s, 2, Len(s))
         ELSE Rep("0", width - Len(s)) \o s

\* s[-n:]
LastN(s, n) == IF Len(s) <= n THEN s ELSE SubSeq(s, Len(s) - n + 1, Len(s))

ADDR_HEX_DIGITS == 40

\* _normalize_addr, computed
normalize_addr_compute(addr) ==
    LET a == Strip(addr)
        b == IF StartsWith0x(a) THEN SubSeq(a, 3, Len(a)) ELSE a
    IN <<"0", "x">> \o LastN(ZFill(Lower(b), ADDR_HEX_DIGITS), ADDR_HEX_DIGITS)

(***************************************************************************)
(* Deployed roles and constants                                            *)
(***************************************************************************)
GOVERNANCE_ROUND == <<"0","x","e","7","f","2","a","4","c","9","b","1","d","8","e","3","f","6","a","0","c","5","b","2","d","9","e","4","f","7","a","1","c","6","b","3","d","0","e","8","f","1">>

SEAT_REGISTRAR == <<"0","x","1","b","5","e","9","c","3","a","7","d","0","f","4","e","8","b","2","c","6","a","9","d","3","f","7","b","0","e","5","c","1","a","8","d","4","f","2","e","6","b","0">>

DEFAULT_FEE_RECIPIENT == <<"0","x","7","c","4","d","0","f","3","a","8","e","2","b","6","c","9","d","1","f","5","a","0","e","4","b","8","c","2","d","7","f","3","a","6","e","1","b","9","c","5","d","0">>

BURN_ADDRESS == <<"0","x","0","0","0","0","0","0","0","0","0","0","0","0","0","0","0","0","0","0","0","0","0","0","0","0","0","0","0","0","0","0","0","0","0","0","0","0","d","E","a","D">>

\* the literal "0x" + "0" * 40 the code compares against
ZERO_ADDRESS == <<"0", "x">> \o Rep("0", 40)

\* The code's KON_SCALE is 10**18; Python integers are unbounded and nothing
\* in the engine depends on the factor, only on the amounts being integers.
\* TLC's integers are 32 bits wide, so amounts are counted here with a
\* decimal factor of 1: KON_INITIAL_SUPPLY and KON_MAX_SUPPLY then fit.
KON_SCALE == 1

KON_INITIAL_SUPPLY == 1000000000 * KON_SCALE

KON_MAX_SUPPLY == 2000000000 * KON_SCALE

ROUND_TABLE_SEATS == 150

KOK_COLLECTION_SIZE == 16

KON_BASIS_POINTS == 10000

KON_MAX_FEE_BASIS == 250

KON_MIN_STAKE_FOR_SEAT == 10000 * KON_SCALE

MAX_CLAIM_PER_TX == 50

INITIAL_FEE_BASIS == 50

BLOCK_SECONDS == 12

(***************************************************************************)
(* Arguments the callers pass                                              *)
(***************************************************************************)
\* GOVERNANCE_ROUND in upper case, without the 0x prefix, inside whitespace
GovernanceAlias == <<" ","E","7","F","2","A","4","C","9","B","1","D","8","E","3","F","6","A","0","C","5","B","2","D","9","E","4","F","7","A","1","C","6","B","3","D","0","E","8","F","1"," ">>

\* the zero address written without the prefix and unpadded
ShortZero == <<"0">>

\* account holders: from_addr
HolderInputs == {GOVERNANCE_ROUND, SEAT_REGISTRAR}

\* owner of an allowance
OwnerInputs == {GOVERNANCE_ROUND, SEAT_REGISTRAR, ZERO_ADDRESS}

\* destinations: to_addr, spender
DestInputs == {GOVERNANCE_ROUND, SEAT_REGISTRAR, ZERO_ADDRESS}

\* who calls: caller, sender, knight
CallerInputs == {GovernanceAlias, SEAT_REGISTRAR}

RecipientInputs == {SEAT_REGISTRAR, ZERO_ADDRESS, ShortZero}

AmountInputs == {0, 150, 1000}

AllowanceInputs == {0, 1000}

BasisInputs == {0, 50, KON_MAX_FEE_BASIS, KON_MAX_FEE_BASIS + 1}

SeatIdInputs == {-1, 0, 1, ROUND_TABLE_SEATS}

StakeInputs == {KON_MIN_STAKE_FOR_SEAT - 1, KON_MIN_STAKE_FOR_SEAT, KON_MIN_STAKE_FOR_SEAT + 1}

BlockInputs == {7}

TokenIdInputs == {-1, 0, KOK_COLLECTION_SIZE - 1, KOK_COLLECTION_SIZE}

\* two readings of time.time() within one 12 second block
ClockInputs == {1700000004, 1700000011}

BatchInputs ==
    {<<>>,
     <<<<0, GOVERNANCE_ROUND, KON_MIN_STAKE_FOR_SEAT>>, <<1, GovernanceAlias, KON_MIN_STAKE_FOR_SEAT>>>>,
     <<<<1, GOVERNANCE_ROUND, KON_MIN_STAKE_FOR_SEAT>>, <<1, SEAT_REGISTRAR, KON_MIN_STAKE_FOR_SEAT>>>>,
     [i \in 1..(MAX_CLAIM_PER_TX + 1) |-> <<0, GOVERNANCE_ROUND, KON_MIN_STAKE_FOR_SEAT>>]}

\* a batch of exactly MAX_CLAIM_PER_TX claims, each of a seat of its own
FullBatchInputs ==
    {[i \in 1..MAX_CLAIM_PER_TX |-> <<ROUND_TABLE_SEATS - i, GOVERNANCE_ROUND, KON_MIN_STAKE_FOR_SEAT>>]}

\* every address string the model passes to _normalize_addr
AddrStrings ==
    HolderInputs \cup OwnerInputs \cup DestInputs \cup CallerInputs \cup RecipientInputs
        \cup {GOVERNANCE_ROUND, SEAT_REGISTRAR, DEFAULT_FEE_RECIPIENT}

\* _normalize_addr of each of them, computed once
NormalizedAddr == [a \in AddrStrings |-> normalize_addr_compute(a)]

\* _normalize_addr
normalize_addr(addr) ==
    IF addr \in AddrStrings THEN NormalizedAddr[addr] ELSE normalize_addr_compute(addr)

(***************************************************************************)
(* Dicts                                                                   *)
(***************************************************************************)
EmptyDict == <<>>

\* d.get(k, default)
Get(d, k, default) == IF k \in DOMAIN d THEN d[k] ELSE default

\* d[k] = v
Put(d, k, v) == [x \in (DOMAIN d) \cup {k} |-> IF x = k THEN v ELSE d[x]]

\* del d[k], for a key that is present
Del(d, k) == [x \in (DOMAIN d) \ {k} |-> d[x]]

(***************************************************************************)
(* Outcomes, events, seats                                                 *)
(***************************************************************************)
\* the method returned
Return(e) == [eng |-> e, err |-> "ok"]

\* the method raised exc, with the engine as it was when it raised
Raise(e, exc) == [eng |-> e, err |-> exc]

EventTransfer(from_addr, to_addr, amount) ==
    [type |-> "EventTransfer", from_addr |-> from_addr, to_addr |-> to_addr, amount |-> amount]

EventSeatClaimed(seat_id, knight, stake_amount) ==
    [type |-> "EventSeatClaimed", seat_id |-> seat_id, knight |-> knight, stake_amount |-> stake_amount]

\* the rarity is KOK_METADATA[token_id]["rarity"], a function of the token id
EventKOKMinted(token_id, to_addr) ==
    [type |-> "EventKOKMinted", token_id |-> token_id, to_addr |-> to_addr]

EventTableUnlocked(unlocked_by, block_ts) ==
    [type |-> "EventTableUnlocked", unlocked_by |-> unlocked_by, block_ts |-> block_ts]

RoundTableSeat(seat_id, occupant, stake_amount, claimed_at_block, status) ==
    [seat_id |-> seat_id, occupant |-> occupant, stake_amount |-> stake_amount,
     claimed_at_block |-> claimed_at_block, status |-> status]

\* the seat as __init__ and release_seat write it; "" is the empty sequence
VacantSeat(sid) == RoundTableSeat(sid, <<>>, 0, 0, "VACANT")

\* genesis_block_if_you_need_it(), with the wall clock reading as its input
genesis_block_if_you_need_it(now) == now \div BLOCK_SECONDS

(***************************************************************************)
(* The engine                                                              *)
(***************************************************************************)
\* __init__ up to the call of _mint
NewEngine ==
    [balances           |-> EmptyDict,
     allowances         |-> EmptyDict,
     total_supply       |-> 0,
     seats              |-> [sid \in 0..(ROUND_TABLE_SEATS - 1) |-> VacantSeat(sid)],
     seat_by_knight     |-> EmptyDict,
     kok_owners         |-> EmptyDict,
     kok_minted         |-> [i \in 0..(KOK_COLLECTION_SIZE - 1) |-> FALSE],
     table_unlocked     |-> FALSE,
     unlock_block       |-> 0,
     transfer_fee_basis |-> INITIAL_FEE_BASIS,
     fee_recipient      |-> normalize_addr(DEFAULT_FEE_RECIPIENT),
     events             |-> <<>>]

\* a _mint that logs the tokens it creates as a transfer from the zero address
mint_logs_transfer(e, to0, amount) ==
    LET to        == normalize_addr(to0)
        new_total == e.total_supply + amount
    IN IF ~(to # BURN_ADDRESS /\ to # ZERO_ADDRESS) THEN Raise(e, "ZeroAddress")
       ELSE IF ~(amount > 0) THEN Raise(e, "ZeroAmount")
       ELSE IF ~(new_total <= KON_MAX_SUPPLY) THEN Raise(e, "MintExceedsCap")
       ELSE Return([e EXCEPT !.total_supply = new_total,
                             !.balances = Put(@, to, Get(@, to, 0) + amount),
                             !.events = Append(@, EventTransfer(ZERO_ADDRESS, to, amount))])

mint(e, to0, amount) ==
    LET to        == normalize_addr(to0)
        new_total == e.total_supply + amount
    IN IF ~(to # BURN_ADDRESS /\ to # ZERO_ADDRESS) THEN Raise(e, "ZeroAddress")
       ELSE IF ~(amount > 0) THEN Raise(e, "ZeroAmount")
       ELSE IF ~(new_total <= KON_MAX_SUPPLY) THEN Raise(e, "MintExceedsCap")
       ELSE Return([e EXCEPT !.total_supply = new_total,
                             !.balances = Put(@, to, Get(@, to, 0) + amount)])

set_table_unlocked_registrar_allowed(e, unlocked, caller0, now) ==
    LET caller == normalize_addr(caller0)
        blk    == genesis_block_if_you_need_it(now)
    IN IF ~(caller = normalize_addr(GOVERNANCE_ROUND) \/ caller = normalize_addr(SEAT_REGISTRAR))
       THEN Raise(e, "NotGovernance")
       ELSE Return([e EXCEPT !.table_unlocked = unlocked,
                             !.unlock_block = blk,
                             !.events = Append(@, EventTableUnlocked(caller, blk))])

set_table_unlocked(e, unlocked, caller0, now) ==
    LET caller == normalize_addr(caller0)
        blk    == genesis_block_if_you_need_it(now)
    IN IF ~(caller = normalize_addr(GOVERNANCE_ROUND)) THEN Raise(e, "NotGovernance")
       ELSE Return([e EXCEPT !.table_unlocked = unlocked,
                             !.unlock_block = blk,
                             !.events = Append(@, EventTableUnlocked(caller, blk))])

\* the fee of a transfer of amount0: 0 unless a fee basis and a recipient are set
transfer_fee_rounded_up(e, amount0) ==
    IF e.transfer_fee_basis > 0 /\ e.fee_recipient # ZERO_ADDRESS
    THEN (amount0 * e.transfer_fee_basis + KON_BASIS_POINTS - 1) \div KON_BASIS_POINTS
    ELSE 0

transfer_fee(e, amount0) ==
    IF e.transfer_fee_basis > 0 /\ e.fee_recipient # ZERO_ADDRESS
    THEN (amount0 * e.transfer_fee_basis) \div KON_BASIS_POINTS
    ELSE 0

\* the allowances after a transfer: a delegated one spends the gross amount
spend_allowance_net_of_fee(e, from_addr, sender, amount0) ==
    IF sender # from_addr
    THEN Put(e.allowances, <<from_addr, sender>>,
             Get(e.allowances, <<from_addr, sender>>, 0) - (amount0 - transfer_fee(e, amount0)))
    ELSE e.allowances

spend_allowance(e, from_addr, sender, amount0) ==
    IF sender # from_addr
    THEN Put(e.allowances, <<from_addr, sender>>,
             Get(e.allowances, <<from_addr, sender>>, 0) - amount0)
    ELSE e.allowances

\* the balances after a transfer that delivers amount and takes fee; the
\* three writes are made in this order, each reading what the one before wrote
move_balances_fee_not_debited(e, from_addr, to_addr, amount, fee) ==
    LET b1 == Put(e.balances, from_addr, Get(e.balances, from_addr, 0) - amount)
        b2 == Put(b1, to_addr, Get(b1, to_addr, 0) + amount)
    IN IF fee > 0
       THEN Put(b2, e.fee_recipient, Get(b2, e.fee_recipient, 0) + fee)
       ELSE b2

\* the same writes with the credit of to_addr computed from the balances
\* read before from_addr was debited
move_balances_stale_reads(e, from_addr, to_addr, amount, fee) ==
    LET b1 == Put(e.balances, from_addr, Get(e.balances, from_addr, 0) - amount - fee)
        b2 == Put(b1, to_addr, Get(e.balances, to_addr, 0) + amount)
    IN IF fee > 0
       THEN Put(b2, e.fee_recipient, Get(b2, e.fee_recipient, 0) + fee)
       ELSE b2

move_balances(e, from_addr, to_addr, amount, fee) ==
    LET b1 == Put(e.balances, from_addr, Get(e.balances, from_addr, 0) - amount - fee)
        b2 == Put(b1, to_addr, Get(b1, to_addr, 0) + amount)
    IN IF fee > 0
       THEN Put(b2, e.fee_recipient, Get(b2, e.fee_recipient, 0) + fee)
       ELSE b2

\* a transfer that logs the gross amount
transfer_logs_gross(e, from_addr0, to_addr0, amount0, sender0) ==
    LET from_addr == normalize_addr(from_addr0)
        to_addr   == normalize_addr(to_addr0)
        sender    == normalize_addr(sender0)
        bal       == Get(e.balances, from_addr, 0)
        allow     == Get(e.allowances, <<from_addr, sender>>, 0)
        fee       == transfer_fee(e, amount0)
        amount    == IF fee > 0 THEN amount0 - fee ELSE amount0
    IN IF ~(to_addr # ZERO_ADDRESS) THEN Raise(e, "TransferToZero")
       ELSE IF ~(amount0 > 0) THEN Raise(e, "ZeroAmount")
       ELSE IF ~(bal >= amount0) THEN Raise(e, "ExceedsBalance")
       ELSE IF sender # from_addr /\ ~(allow >= amount0) THEN Raise(e, "ExceedsAllowance")
       ELSE Return([e EXCEPT
                !.allowances = spend_allowance(e, from_addr, sender, amount0),
                !.balances = move_balances(e, from_addr, to_addr, amount, fee),
                !.events = Append(@, EventTransfer(from_addr, to_addr, amount0))])

transfer(e, from_addr0, to_addr0, amount0, sender0) ==
    LET from_addr == normalize_addr(from_addr0)
        to_addr   == normalize_addr(to_addr0)
        sender    == normalize_addr(sender0)
        bal       == Get(e.balances, from_addr, 0)
        allow     == Get(e.allowances, <<from_addr, sender>>, 0)
        fee       == transfer_fee(e, amount0)
        amount    == IF fee > 0 THEN amount0 - fee ELSE amount0
    IN IF ~(to_addr # ZERO_ADDRESS) THEN Raise(e, "TransferToZero")
       ELSE IF ~(amount0 > 0) THEN Raise(e, "ZeroAmount")
       ELSE IF ~(bal >= amount0) THEN Raise(e, "ExceedsBalance")
       ELSE IF sender # from_addr /\ ~(allow >= amount0) THEN Raise(e, "ExceedsAllowance")
       ELSE Return([e EXCEPT
                !.allowances = spend_allowance(e, from_addr, sender, amount0),
                !.balances = move_balances(e, from_addr, to_addr, amount, fee),
                !.events = Append(@, EventTransfer(from_addr, to_addr, amount))])

approve_adds(e, owner0, spender0, amount) ==
    LET owner   == normalize_addr(owner0)
        spender == normalize_addr(spender0)
    IN IF ~(owner # ZERO_ADDRESS) THEN Raise(e, "ZeroAddress")
       ELSE IF ~(spender # ZERO_ADDRESS) THEN Raise(e, "ZeroAddress")
       ELSE Return([e EXCEPT !.allowances =
                        Put(@, <<owner, spender>>, Get(@, <<owner, spender>>, 0) + amount)])

approve(e, owner0, spender0, amount) ==
    LET owner   == normalize_addr(owner0)
        spender == normalize_addr(spender0)
    IN IF ~(owner # ZERO_ADDRESS) THEN Raise(e, "ZeroAddress")
       ELSE IF ~(spender # ZERO_ADDRESS) THEN Raise(e, "ZeroAddress")
       ELSE Return([e EXCEPT !.allowances = Put(@, <<owner, spender>>, amount)])

set_transfer_fee_cap_unchecked(e, basis, caller0) ==
    LET caller == normalize_addr(caller0)
    IN IF ~(caller = normalize_addr(GOVERNANCE_ROUND)) THEN Raise(e, "NotGovernance")
       ELSE Return([e EXCEPT !.transfer_fee_basis = basis])

set_transfer_fee(e, basis, caller0) ==
    LET caller == normalize_addr(caller0)
    IN IF ~(caller = normalize_addr(GOVERNANCE_ROUND)) THEN Raise(e, "NotGovernance")
       ELSE IF ~(basis <= KON_MAX_FEE_BASIS) THEN Raise(e, "FeeBasisTooHigh")
       ELSE Return([e EXCEPT !.transfer_fee_basis = basis])

\* the zero check is made on the recipient as given, before it is normalised
set_fee_recipient(e, recipient, caller0) ==
    LET caller == normalize_addr(caller0)
    IN IF ~(caller = normalize_addr(GOVERNANCE_ROUND)) THEN Raise(e, "NotGovernance")
       ELSE IF ~(recipient # ZERO_ADDRESS) THEN Raise(e, "ZeroAddress")
       ELSE Return([e EXCEPT !.fee_recipient = normalize_addr(recipient)])

claim_seat_balance_checked_before_stake(e, seat_id, knight0, stake_amount, block_num) ==
    LET knight == normalize_addr(knight0)
        bal    == Get(e.balances, knight, 0)
    IN IF ~(0 <= seat_id /\ seat_id < ROUND_TABLE_SEATS) THEN Raise(e, "InvalidSeatId")
       ELSE IF ~e.table_unlocked THEN Raise(e, "TableNotUnlocked")
       ELSE IF ~(e.seats[seat_id].status = "VACANT") THEN Raise(e, "SeatAlreadyClaimed")
       ELSE IF ~(bal >= stake_amount) THEN Raise(e, "ExceedsBalance")
       ELSE IF ~(stake_amount >= KON_MIN_STAKE_FOR_SEAT) THEN Raise(e, "InsufficientStake")
       ELSE Return([e EXCEPT
                !.balances = Put(@, knight, bal - stake_amount),
                !.seats[seat_id] = RoundTableSeat(seat_id, knight, stake_amount, block_num, "CLAIMED"),
                !.seat_by_knight = Put(@, knight, seat_id),
                !.events = Append(@, EventSeatClaimed(seat_id, knight, stake_amount))])

claim_seat(e, seat_id, knight0, stake_amount, block_num) ==
    LET knight == normalize_addr(knight0)
        bal    == Get(e.balances, knight, 0)
    IN IF ~(0 <= seat_id /\ seat_id < ROUND_TABLE_SEATS) THEN Raise(e, "InvalidSeatId")
       ELSE IF ~e.table_unlocked THEN Raise(e, "TableNotUnlocked")
       ELSE IF ~(e.seats[seat_id].status = "VACANT") THEN Raise(e, "SeatAlreadyClaimed")
       ELSE IF ~(stake_amount >= KON_MIN_STAKE_FOR_SEAT) THEN Raise(e, "InsufficientStake")
       ELSE IF ~(bal >= stake_amount) THEN Raise(e, "ExceedsBalance")
       ELSE Return([e EXCEPT
                !.balances = Put(@, knight, bal - stake_amount),
                !.seats[seat_id] = RoundTableSeat(seat_id, knight, stake_amount, block_num, "CLAIMED"),
                !.seat_by_knight = Put(@, knight, seat_id),
                !.events = Append(@, EventSeatClaimed(seat_id, knight, stake_amount))])

release_seat_refunds_minimum(e, seat_id, caller0, block_num) ==
    LET caller == normalize_addr(caller0)
        seat   == e.seats[seat_id]
        e1     == [e EXCEPT !.seats[seat_id] = VacantSeat(seat_id)]
    IN IF ~(0 <= seat_id /\ seat_id < ROUND_TABLE_SEATS) THEN Raise(e, "InvalidSeatId")
       ELSE IF ~(seat.occupant = caller) THEN Raise(e, "NotAKnight")
       ELSE IF ~(seat.status = "CLAIMED") THEN Raise(e, "TableGuardDenied")
       ELSE IF caller \notin DOMAIN e.seat_by_knight THEN Raise(e1, "KeyError")
       ELSE Return([e1 EXCEPT
                !.seat_by_knight = Del(@, caller),
                !.balances = Put(@, caller, Get(@, caller, 0) + KON_MIN_STAKE_FOR_SEAT)])

\* The seat is rewritten before `del self._seat_by_knight[caller]`; when the
\* caller has no reverse-index entry the del raises KeyError, after the seat
\* was reset and before the stake is credited back.
release_seat(e, seat_id, caller0, block_num) ==
    LET caller == normalize_addr(caller0)
        seat   == e.seats[seat_id]
        e1     == [e EXCEPT !.seats[seat_id] = VacantSeat(seat_id)]
    IN IF ~(0 <= seat_id /\ seat_id < ROUND_TABLE_SEATS) THEN Raise(e, "InvalidSeatId")
       ELSE IF ~(seat.occupant = caller) THEN Raise(e, "NotAKnight")
       ELSE IF ~(seat.status = "CLAIMED") THEN Raise(e, "TableGuardDenied")
       ELSE IF caller \notin DOMAIN e.seat_by_knight THEN Raise(e1, "KeyError")
       ELSE Return([e1 EXCEPT
                !.seat_by_knight = Del(@, caller),
                !.balances = Put(@, caller, Get(@, caller, 0) + seat.stake_amount)])

has_round_table_access(e, addr) == normalize_addr(addr) \in DOMAIN e.seat_by_knight

mint_kok_flag_not_set(e, token_id, to_addr0, caller0) ==
    LET caller  == normalize_addr(caller0)
        to_addr == normalize_addr(to_addr0)
    IN IF ~(0 <= token_id /\ token_id < KOK_COLLECTION_SIZE) THEN Raise(e, "KOKIndexOutOfRange")
       ELSE IF ~(~e.kok_minted[token_id]) THEN Raise(e, "KOKAlreadyMinted")
       ELSE IF ~(caller = normalize_addr(SEAT_REGISTRAR)) THEN Raise(e, "NotRegistrar")
       ELSE IF ~(to_addr # ZERO_ADDRESS) THEN Raise(e, "ZeroAddress")
       ELSE Return([e EXCEPT
                !.kok_owners = Put(@, token_id, to_addr),
                !.events = Append(@, EventKOKMinted(token_id, to_addr))])

mint_kok_registrar_checked_first(e, token_id, to_addr0, caller0) ==
    LET caller  == normalize_addr(caller0)
        to_addr == normalize_addr(to_addr0)
    IN IF ~(0 <= token_id /\ token_id < KOK_COLLECTION_SIZE) THEN Raise(e, "KOKIndexOutOfRange")
       ELSE IF ~(caller = normalize_addr(SEAT_REGISTRAR)) THEN Raise(e, "NotRegistrar")
       ELSE IF ~(~e.kok_minted[token_id]) THEN Raise(e, "KOKAlreadyMinted")
       ELSE IF ~(to_addr # ZERO_ADDRESS) THEN Raise(e, "ZeroAddress")
       ELSE Return([e EXCEPT
                !.kok_minted[token_id] = TRUE,
                !.kok_owners = Put(@, token_id, to_addr),
                !.events = Append(@, EventKOKMinted(token_id, to_addr))])

mint_kok(e, token_id, to_addr0, caller0) ==
    LET caller  == normalize_addr(caller0)
        to_addr == normalize_addr(to_addr0)
    IN IF ~(0 <= token_id /\ token_id < KOK_COLLECTION_SIZE) THEN Raise(e, "KOKIndexOutOfRange")
       ELSE IF ~(~e.kok_minted[token_id]) THEN Raise(e, "KOKAlreadyMinted")
       ELSE IF ~(caller = normalize_addr(SEAT_REGISTRAR)) THEN Raise(e, "NotRegistrar")
       ELSE IF ~(to_addr # ZERO_ADDRESS) THEN Raise(e, "ZeroAddress")
       ELSE Return([e EXCEPT
                !.kok_minted[token_id] = TRUE,
                !.kok_owners = Put(@, token_id, to_addr),
                !.events = Append(@, EventKOKMinted(token_id, to_addr))])

transfer_kok_sender_unchecked(e, token_id, from_addr0, to_addr0, sender0) ==
    LET from_addr == normalize_addr(from_addr0)
        to_addr   == normalize_addr(to_addr0)
    IN IF ~(0 <= token_id /\ token_id < KOK_COLLECTION_SIZE) THEN Raise(e, "KOKIndexOutOfRange")
       ELSE IF ~(token_id \in DOMAIN e.kok_owners /\ e.kok_owners[token_id] = from_addr)
            THEN Raise(e, "NotKOKOwner")
       ELSE IF ~(to_addr # ZERO_ADDRESS) THEN Raise(e, "ZeroAddress")
       ELSE Return([e EXCEPT !.kok_owners = Put(@, token_id, to_addr)])

\* self._kok_owners.get(token_id) is None for an item with no owner, and
\* None equals no address
transfer_kok(e, token_id, from_addr0, to_addr0, sender0) ==
    LET from_addr == normalize_addr(from_addr0)
        to_addr   == normalize_addr(to_addr0)
        sender    == normalize_addr(sender0)
    IN IF ~(0 <= token_id /\ token_id < KOK_COLLECTION_SIZE) THEN Raise(e, "KOKIndexOutOfRange")
       ELSE IF ~(token_id \in DOMAIN e.kok_owners /\ e.kok_owners[token_id] = from_addr)
            THEN Raise(e, "NotKOKOwner")
       ELSE IF ~(sender = from_addr) THEN Raise(e, "NotKOKOwner")
       ELSE IF ~(to_addr # ZERO_ADDRESS) THEN Raise(e, "ZeroAddress")
       ELSE Return([e EXCEPT !.kok_owners = Put(@, token_id, to_addr)])

clear_events(e) == Return([e EXCEPT !.events = <<>>])

\* the loop of batch_claim_seats: the first claim that raises ends it, with
\* the engine as the claims before it left it
RECURSIVE claim_each(_, _, _)
claim_each(e, claims, block_num) ==
    IF claims = <<>> THEN Return(e)
    ELSE LET c == Head(claims)
             r == claim_seat(e, c[1], c[2], c[3], block_num)
         IN IF r.err # "ok" THEN r
            ELSE claim_each(r.eng, Tail(claims), block_num)

\* a batch that undoes the claims made when one of them raises
batch_claim_seats_all_or_nothing(e, claims, block_num) ==
    IF ~(Len(claims) <= MAX_CLAIM_PER_TX) THEN Raise(e, "ClaimBatchTooLarge")
    ELSE LET r == claim_each(e, claims, block_num)
         IN IF r.err # "ok" THEN Raise(e, r.err) ELSE r

batch_claim_seats_size_checked_last(e, claims, block_num) ==
    LET r == claim_each(e, claims, block_num)
    IN IF r.err # "ok" THEN r
       ELSE IF ~(Len(claims) <= MAX_CLAIM_PER_TX) THEN Raise(r.eng, "ClaimBatchTooLarge")
       ELSE r

batch_claim_seats(e, claims, block_num) ==
    IF ~(Len(claims) <= MAX_CLAIM_PER_TX) THEN Raise(e, "ClaimBatchTooLarge")
    ELSE claim_each(e, claims, block_num)

(***************************************************************************)
(* Queries                                                                 *)
(***************************************************************************)
balance_of(e, addr) == Get(e.balances, normalize_addr(addr), 0)

allowance(e, owner, spender) ==
    Get(e.allowances, <<normalize_addr(owner), normalize_addr(spender)>>, 0)

total_supply(e) == e.total_supply

seats_claimed_count(e) ==
    Cardinality({sid \in DOMAIN e.seats : e.seats[sid].status = "CLAIMED"})

kok_minted_count(e) ==
    Cardinality({i \in DOMAIN e.kok_minted : e.kok_minted[i]})

(***************************************************************************)
(* Collectible metadata                                                    *)
(***************************************************************************)
\* The table, item token_id at index token_id + 1.  rarity is the name of the
\* KOKRarity member; image_hash is "0x" and the sha256 hex digest the source
\* computes.
KOK_METADATA ==
    <<
     [token_id |-> 0,
      name |-> "Arthur of Near",
      description |-> "Sovereign of the Round Table. One blade to bind them.",
      rarity |-> "LEGENDARY",
      attributes |-> <<[trait_type |-> "Title", value |-> "High King"], [trait_type |-> "Power", value |-> 98]>>,
      image_hash |-> "0x9e92d4de0be28edba2832248669c426e4197e91a115f7ce64d418904fd28bf8c"],
     [token_id |-> 1,
      name |-> "Merlin the Seer",
      description |-> "Oracle of NEAR. Sees across chains.",
      rarity |-> "LEGENDARY",
      attributes |-> <<[trait_type |-> "Title", value |-> "Prophet"], [trait_type |-> "Power", value |-> 95]>>,
      image_hash |-> "0x16f05072a838113ef9e60c242affcccdc17c536740b24d8fc2f099f270312808"],
     [token_id |-> 2,
      name |-> "Lancelot the Pure",
      description |-> "Champion of the realm. Unbroken in battle.",
      rarity |-> "EPIC",
      attributes |-> <<[trait_type |-> "Title", value |-> "First Knight"], [trait_type |-> "Power", value |-> 94]>>,
      image_hash |-> "0xf9a7ae67d905788bcdaddbb41a9c2f3c6f3397481e433702c1846f7700cc7b83"],
     [token_id |-> 3,
      name |-> "Guinevere of the Gate",
      description |-> "Keeper of the bridge between NEAR and EVM.",
      rarity |-> "EPIC",
      attributes |-> <<[trait_type |-> "Title", value |-> "Bridge Keeper"], [trait_type |-> "Power", value |-> 90]>>,
      image_hash |-> "0x390981ebf9e9bc460cecea9fcd9a133589ec42986308e4fbf42af6e8243587dc"],
     [token_id |-> 4,
      name |-> "Gawain the Green",
      description |-> "Guardian of the green layer. Staking champion.",
      rarity |-> "EPIC",
      attributes |-> <<[trait_type |-> "Title", value |-> "Green Knight"], [trait_type |-> "Power", value |-> 88]>>,
      image_hash |-> "0x79af58793d3b3578f43a8cc93e8aa1b088c71b8493d57bca78e686a9f2473931"],
     [token_id |-> 5,
      name |-> "Percival the Seeker",
      description |-> "Quest for the grail across L1 and L2.",
      rarity |-> "RARE",
      attributes |-> <<[trait_type |-> "Title", value |-> "Grail Seeker"], [trait_type |-> "Power", value |-> 85]>>,
      image_hash |-> "0x16ba616e2315905c14bfaa12642bd3128cfc6402ec22ea160391d7beec4e7a68"],
     [token_id |-> 6,
      name |-> "Tristan the Bound",
      description |-> "Bound to the chain. Loyalty immutable.",
      rarity |-> "RARE",
      attributes |-> <<[trait_type |-> "Title", value |-> "Oathbound"], [trait_type |-> "Power", value |-> 82]>>,
      image_hash |-> "0x1b595d951b95420c05db2a0756d65a4a19dcf218fe91d5e17d7da9c6769168ee"],
     [token_id |-> 7,
      name |-> "Galahad the Virtuous",
      description |-> "Pure of heart. First to the round table.",
      rarity |-> "RARE",
      attributes |-> <<[trait_type |-> "Title", value |-> "Virtuous"], [trait_type |-> "Power", value |-> 87]>>,
      image_hash |-> "0xa84dd80a6640ee5881248936322066c14648dfcd72d55023d20ec6506431dae2"],
     [token_id |-> 8,
      name |-> "Bedivere the Marshal",
      description |-> "Marshal of the table. Order in chaos.",
      rarity |-> "UNCOMMON",
      attributes |-> <<[trait_type |-> "Title", value |-> "Marshal"], [trait_type |-> "Power", value |-> 78]>>,
      image_hash |-> "0x51cea098e24d93c619dd7bbd84b2198d3cf314515c646bd803ad50f1317c1cd5"],
     [token_id |-> 9,
      name |-> "Kay the Seneschal",
      description |-> "Keeper of the keys. Access control.",
      rarity |-> "UNCOMMON",
      attributes |-> <<[trait_type |-> "Title", value |-> "Seneschal"], [trait_type |-> "Power", value |-> 75]>>,
      image_hash |-> "0x9888c2a4b68d5c80cc38eb2156436e1b69a7d9ddd55213d185913cee5fa3245d"],
     [token_id |-> 10,
      name |-> "Bors the Twin",
      description |-> "Dual-chain knight. NEAR and EVM.",
      rarity |-> "UNCOMMON",
      attributes |-> <<[trait_type |-> "Title", value |-> "Twin Knight"], [trait_type |-> "Power", value |-> 76]>>,
      image_hash |-> "0x7f95496a23aeaff6a7fe8b38c8f38810b7349933db305fb0d1ec9feb58330613"],
     [token_id |-> 11,
      name |-> "Ector the Foster",
      description |-> "Raised the king. Guardian of the realm.",
      rarity |-> "UNCOMMON",
      attributes |-> <<[trait_type |-> "Title", value |-> "Foster"], [trait_type |-> "Power", value |-> 74]>>,
      image_hash |-> "0xf63a2c9c695a38a8993db00ac1e56318a3bd88daf0f356815c718a2da641f8d8"],
     [token_id |-> 12,
      name |-> "Lamorak the Bold",
      description |-> "Bold in battle. No rollback.",
      rarity |-> "COMMON",
      attributes |-> <<[trait_type |-> "Title", value |-> "Bold"], [trait_type |-> "Power", value |-> 70]>>,
      image_hash |-> "0x702de29a3878a80016fa24fd3f819759cc4b76007d6b891f3157bf4d763b74d5"],
     [token_id |-> 13,
      name |-> "Gareth the Fair",
      description |-> "Fair in governance. One vote, one knight.",
      rarity |-> "COMMON",
      attributes |-> <<[trait_type |-> "Title", value |-> "Fair"], [trait_type |-> "Power", value |-> 68]>>,
      image_hash |-> "0x585638bd7621152bfbcd702bd083ee9788dcf37d0ec3695eea7e2058b92a1045"],
     [token_id |-> 14,
      name |-> "Agravain the Sharp",
      description |-> "Sharp wit. Smart contract reviewer.",
      rarity |-> "COMMON",
      attributes |-> <<[trait_type |-> "Title", value |-> "Sharp"], [trait_type |-> "Power", value |-> 65]>>,
      image_hash |-> "0x62e629162cddcdedf33d0108859b3b4c7ca246d5c99f09852d2940ee84a02363"],
     [token_id |-> 15,
      name |-> "Mordred the Shadow",
      description |-> "Shadow of the table. Testnet knight.",
      rarity |-> "COMMON",
      attributes |-> <<[trait_type |-> "Title", value |-> "Shadow"], [trait_type |-> "Power", value |-> 72]>>,
      image_hash |-> "0xb91e71eab095a73bcdde6c90200d141a2c3c895bf479012f6802b0927d15ed39"]
    >>

\* The objects the table is made of.  The dict of item i holds under
\* "attributes" a reference to a list object, here i; the list holds
\* references to its trait dicts, here <<i, j>> for the j-th trait.
MetadataObjects ==
    [dicts  |-> [i \in 0..(KOK_COLLECTION_SIZE - 1) |-> [KOK_METADATA[i + 1] EXCEPT !.attributes = i]],
     lists  |-> [i \in 0..(KOK_COLLECTION_SIZE - 1) |->
                    [j \in 1..Len(KOK_METADATA[i + 1].attributes) |-> <<i, j>>]],
     traits |-> [t \in UNION {{<<i, j>> : j \in 1..Len(KOK_METADATA[i + 1].attributes)} :
                                    i \in 0..(KOK_COLLECTION_SIZE - 1)} |->
                    KOK_METADATA[t[1] + 1].attributes[t[2]]]]

\* The objects as they are now: h holds the ones written to since the module
\* was loaded, with their present contents, and every other object is as
\* MetadataObjects has it.
DictObject(h, i) == Get(h.dicts, i, MetadataObjects.dicts[i])

ListObject(h, ref) == Get(h.lists, ref, MetadataObjects.lists[ref])

TraitObject(h, ref) == Get(h.traits, ref, MetadataObjects.traits[ref])

\* get_kok_metadata: <<>> is None.  dict.copy() makes a new dict that holds
\* the values of the old one: the string and number fields, and the same
\* reference to the list object under "attributes".
get_kok_metadata(h, token_id) ==
    IF 0 <= token_id /\ token_id < KOK_COLLECTION_SIZE
    THEN <<DictObject(h, token_id)>>
    ELSE <<>>

\* a metadata dict as a caller reads it, the references followed
MetadataValue(h, d) ==
    [d EXCEPT !.attributes = [j \in 1..Len(ListObject(h, d.attributes)) |->
                                    TraitObject(h, ListObject(h, d.attributes)[j])]]

\* calls that change the engine, in one run
MaxOps == 3

(***************************************************************************)
(* The state machine                                                       *)
(***************************************************************************)
VARIABLES
    eng,      \* the KnightsOfNearEngine instance
    last,     \* the last call: method, arguments, "ok" or the exception raised,
              \* and whether it changed the engine
    opsLeft,  \* how many more calls may change the engine in this run
    metadata, \* the objects of KOK_METADATA written to since it was loaded: dicts,
              \* attribute lists, trait dicts
    returned  \* what the caller holds of its last get_kok_metadata call

vars == <<eng, last, opsLeft, metadata, returned>>

EngineInit == eng = mint(NewEngine, GOVERNANCE_ROUND, KON_INITIAL_SUPPLY).eng

LastInit == last = [op |-> "__init__", args |-> <<>>, err |-> "ok", changed |-> TRUE]

\* the module is loaded and the caller holds nothing yet
MetadataInit ==
    /\ metadata = [dicts |-> EmptyDict, lists |-> EmptyDict, traits |-> EmptyDict]
    /\ returned = <<>>

Init == EngineInit /\ LastInit /\ opsLeft = MaxOps /\ MetadataInit

\* A call can be made.  The run that is followed ends after a call that left
\* the engine as it was (it raised before any write, or wrote nothing new): the
\* caller's next call would start from the engine state the run was in before
\* that call, and the runs from that state are followed without it.  It also
\* ends when opsLeft is used up.
CanCall == last.changed /\ opsLeft > 0

\* what is recorded of a call of method op with arguments args and outcome r
Outcome(op, args, r) == [op |-> op, args |-> args, err |-> r.err, changed |-> r.eng # eng]

OpsLeftAfter(r) == IF r.eng # eng THEN opsLeft - 1 ELSE opsLeft

SetTableUnlocked ==
    \E unlocked \in BOOLEAN, caller \in CallerInputs, now \in ClockInputs :
        LET r == set_table_unlocked(eng, unlocked, caller, now)
        IN /\ CanCall
           /\ eng' = r.eng
           /\ last' = Outcome("set_table_unlocked", [unlocked |-> unlocked, caller |-> caller], r)
           /\ opsLeft' = OpsLeftAfter(r)
           /\ UNCHANGED <<metadata, returned>>

Transfer ==
    \E from_addr \in HolderInputs, to_addr \in DestInputs, amount \in AmountInputs, sender \in CallerInputs :
        LET r == transfer(eng, from_addr, to_addr, amount, sender)
        IN /\ CanCall
           /\ eng' = r.eng
           /\ last' = Outcome("transfer", [from_addr |-> from_addr, to_addr |-> to_addr, amount |-> amount, sender |-> sender], r)
           /\ opsLeft' = OpsLeftAfter(r)
           /\ UNCHANGED <<metadata, returned>>

Approve ==
    \E owner \in OwnerInputs, spender \in DestInputs, amount \in AllowanceInputs :
        LET r == approve(eng, owner, spender, amount)
        IN /\ CanCall
           /\ eng' = r.eng
           /\ last' = Outcome("approve", [owner |-> owner, spender |-> spender, amount |-> amount], r)
           /\ opsLeft' = OpsLeftAfter(r)
           /\ UNCHANGED <<metadata, returned>>

SetTransferFee ==
    \E basis \in BasisInputs, caller \in CallerInputs :
        LET r == set_transfer_fee(eng, basis, caller)
        IN /\ CanCall
           /\ eng' = r.eng
           /\ last' = Outcome("set_transfer_fee", [basis |-> basis, caller |-> caller], r)
           /\ opsLeft' = OpsLeftAfter(r)
           /\ UNCHANGED <<metadata, returned>>

SetFeeRecipient ==
    \E recipient \in RecipientInputs, caller \in CallerInputs :
        LET r == set_fee_recipient(eng, recipient, caller)
        IN /\ CanCall
           /\ eng' = r.eng
           /\ last' = Outcome("set_fee_recipient", [recipient |-> recipient, caller |-> caller], r)
           /\ opsLeft' = OpsLeftAfter(r)
           /\ UNCHANGED <<metadata, returned>>

ClaimSeat ==
    \E seat_id \in SeatIdInputs, knight \in CallerInputs, stake \in StakeInputs, block_num \in BlockInputs :
        LET r == claim_seat(eng, seat_id, knight, stake, block_num)
        IN /\ CanCall
           /\ eng' = r.eng
           /\ last' = Outcome("claim_seat", [seat_id |-> seat_id, knight |-> knight, stake_amount |-> stake, block_num |-> block_num], r)
           /\ opsLeft' = OpsLeftAfter(r)
           /\ UNCHANGED <<metadata, returned>>

ReleaseSeat ==
    \E seat_id \in SeatIdInputs, caller \in CallerInputs, block_num \in BlockInputs :
        LET r == release_seat(eng, seat_id, caller, block_num)
        IN /\ CanCall
           /\ eng' = r.eng
           /\ last' = Outcome("release_seat", [seat_id |-> seat_id, caller |-> caller, block_num |-> block_num], r)
           /\ opsLeft' = OpsLeftAfter(r)
           /\ UNCHANGED <<metadata, returned>>

BatchClaimSeats ==
    \E claims \in BatchInputs, block_num \in BlockInputs :
        LET r == batch_claim_seats(eng, claims, block_num)
        IN /\ CanCall
           /\ eng' = r.eng
           /\ last' = Outcome("batch_claim_seats", [claims |-> claims, block_num |-> block_num], r)
           /\ opsLeft' = OpsLeftAfter(r)
           /\ UNCHANGED <<metadata, returned>>

MintKok ==
    \E token_id \in TokenIdInputs, to_addr \in DestInputs, caller \in CallerInputs :
        LET r == mint_kok(eng, token_id, to_addr, caller)
        IN /\ CanCall
           /\ eng' = r.eng
           /\ last' = Outcome("mint_kok", [token_id |-> token_id, to_addr |-> to_addr, caller |-> caller], r)
           /\ opsLeft' = OpsLeftAfter(r)
           /\ UNCHANGED <<metadata, returned>>

TransferKok ==
    \E token_id \in TokenIdInputs, from_addr \in HolderInputs, to_addr \in DestInputs, sender \in CallerInputs :
        LET r == transfer_kok(eng, token_id, from_addr, to_addr, sender)
        IN /\ CanCall
           /\ eng' = r.eng
           /\ last' = Outcome("transfer_kok", [token_id |-> token_id, from_addr |-> from_addr, to_addr |-> to_addr, sender |-> sender], r)
           /\ opsLeft' = OpsLeftAfter(r)
           /\ UNCHANGED <<metadata, returned>>

ClearEvents ==
    LET r == clear_events(eng)
    IN /\ CanCall
       /\ eng' = r.eng
       /\ last' = Outcome("clear_events", <<>>, r)
       /\ opsLeft' = OpsLeftAfter(r)
       /\ UNCHANGED <<metadata, returned>>

Next ==
    \/ SetTableUnlocked
    \/ Transfer
    \/ Approve
    \/ SetTransferFee
    \/ SetFeeRecipient
    \/ ClaimSeat
    \/ ReleaseSeat
    \/ BatchClaimSeats
    \/ MintKok
    \/ TransferKok
    \/ ClearEvents

Spec == Init /\ [][Next]_vars

\* the seat registry alone, followed further
MaxSeatOps == 5

InitSeats == EngineInit /\ LastInit /\ opsLeft = MaxSeatOps /\ MetadataInit

\* batch_claim_seats with as many claims as one call may hold
BatchClaimSeatsFull ==
    \E claims \in FullBatchInputs, block_num \in BlockInputs :
        LET r == batch_claim_seats(eng, claims, block_num)
        IN /\ CanCall
           /\ eng' = r.eng
           /\ last' = Outcome("batch_claim_seats", [claims |-> claims, block_num |-> block_num], r)
           /\ opsLeft' = OpsLeftAfter(r)
           /\ UNCHANGED <<metadata, returned>>

NextSeats ==
    \/ SetTableUnlocked
    \/ ClaimSeat
    \/ ReleaseSeat
    \/ BatchClaimSeats
    \/ BatchClaimSeatsFull

SpecSeats == InitSeats /\ [][NextSeats]_vars

\* calls and writes of the caller of get_kok_metadata, in one run
MaxMetadataOps == 5

InitMetadata == EngineInit /\ LastInit /\ opsLeft = MaxMetadataOps /\ MetadataInit

\* trait values a caller writes
PowerInputs == {0}

\* m = engine.get_kok_metadata(token_id)
GetKokMetadata ==
    \E token_id \in TokenIdInputs :
        /\ opsLeft > 0
        /\ returned' = get_kok_metadata(metadata, token_id)
        /\ last' = [op |-> "get_kok_metadata", args |-> [token_id |-> token_id],
                    err |-> "ok", changed |-> FALSE]
        /\ opsLeft' = opsLeft - 1
        /\ UNCHANGED <<eng, metadata>>

\* m["name"] = "Usurper": a write to the dict the caller was given
ReturnedSetName ==
    /\ opsLeft > 0
    /\ returned # <<>>
    /\ returned' = <<[returned[1] EXCEPT !.name = "Usurper"]>>
    /\ last' = [op |-> "m[name] = v", args |-> <<>>, err |-> "ok", changed |-> FALSE]
    /\ opsLeft' = opsLeft - 1
    /\ UNCHANGED <<eng, metadata>>

\* m["attributes"].pop(): a write to the list object the dict refers to
ReturnedAttributesPop ==
    /\ opsLeft > 0
    /\ returned # <<>>
    /\ ListObject(metadata, returned[1].attributes) # <<>>
    /\ LET l == ListObject(metadata, returned[1].attributes)
       IN metadata' = [metadata EXCEPT !.lists = Put(@, returned[1].attributes, SubSeq(l, 1, Len(l) - 1))]
    /\ last' = [op |-> "m[attributes].pop()", args |-> <<>>, err |-> "ok", changed |-> FALSE]
    /\ opsLeft' = opsLeft - 1
    /\ UNCHANGED <<eng, returned>>

\* m["attributes"][j]["value"] = v, for a trait with a numeric value: a write
\* to a trait dict the list refers to
ReturnedTraitSetValue ==
    \E v \in PowerInputs :
        \E j \in 1..(IF returned = <<>> THEN 0 ELSE Len(ListObject(metadata, returned[1].attributes))) :
            LET t == ListObject(metadata, returned[1].attributes)[j]
            IN /\ opsLeft > 0
               /\ TraitObject(metadata, t).trait_type = "Power"
               /\ metadata' = [metadata EXCEPT
                                    !.traits = Put(@, t, [TraitObject(metadata, t) EXCEPT !.value = v])]
               /\ last' = [op |-> "m[attributes][j][value] = v", args |-> <<>>, err |-> "ok", changed |-> FALSE]
               /\ opsLeft' = opsLeft - 1
               /\ UNCHANGED <<eng, returned>>

NextMetadata ==
    \/ GetKokMetadata
    \/ ReturnedSetName
    \/ ReturnedAttributesPop
    \/ ReturnedTraitSetValue

SpecMetadata == InitMetadata /\ [][NextMetadata]_vars

(***************************************************************************)
(* Properties                                                              *)
(***************************************************************************)
RECURSIVE SumOver(_, _)
SumOver(d, keys) ==
    IF keys = {} THEN 0
    ELSE LET k == CHOOSE x \in keys : TRUE
         IN d[k] + SumOver(d, keys \ {k})

\* the sum of all account balances
SumBalances(e) == SumOver(e.balances, DOMAIN e.balances)

SeatIds == 0..(ROUND_TABLE_SEATS - 1)

TokenIds == 0..(KOK_COLLECTION_SIZE - 1)

SingleOps ==
    {"transfer", "approve", "set_transfer_fee", "set_fee_recipient", "set_table_unlocked",
     "claim_seat", "release_seat", "mint_kok", "transfer_kok"}

FungibleOps == {"transfer", "approve", "set_transfer_fee", "set_fee_recipient"}

Gov == normalize_addr(GOVERNANCE_ROUND)

Registrar == normalize_addr(SEAT_REGISTRAR)

\* C1: a single public operation that fails leaves the whole engine state
\* unchanged (balances, allowances, seats, reverse index, collectibles, the
\* unlocked flag, fee settings, event log).
C1_FailedCallChangesNothing ==
    [][(last'.op \in SingleOps /\ last'.err # "ok") => eng' = eng]_vars

C3_OneSeatPerAddress ==
    \A i \in SeatIds, j \in SeatIds :
        (i # j /\ eng.seats[i].status = "CLAIMED" /\ eng.seats[j].status = "CLAIMED")
            => eng.seats[i].occupant # eng.seats[j].occupant

\* C4: for every seat id i, the seat is CLAIMED iff its occupant is non-empty
\* iff the reverse index has an entry for that occupant whose value is i.
C4_SeatsAgreeWithIndex ==
    \A i \in SeatIds :
        LET seat == eng.seats[i]
        IN /\ (seat.status = "CLAIMED") <=> (seat.occupant # <<>>)
           /\ (seat.occupant # <<>>)
                <=> (seat.occupant \in DOMAIN eng.seat_by_knight
                        /\ eng.seat_by_knight[seat.occupant] = i)

\* C5: release_seat(s, k) right after a successful claim_seat(s, k, stake)
\* succeeds, restores k's balance to its value before the claim, leaves seat s
\* VACANT with empty occupant, stake 0 and claimed_at_block 0, and leaves k
\* without a reverse-index entry.
C5_ClaimThenReleaseRestores ==
    [][(last'.op = "claim_seat" /\ last'.err = "ok")
        => \A block_num \in BlockInputs :
            LET a == last'.args
                r == release_seat(eng', a.seat_id, a.knight, block_num)
            IN /\ r.err = "ok"
               /\ balance_of(r.eng, a.knight) = balance_of(eng, a.knight)
               /\ r.eng.seats[a.seat_id] = RoundTableSeat(a.seat_id, <<>>, 0, 0, "VACANT")
               /\ ~has_round_table_access(r.eng, a.knight)]_vars

\* the knight released the seat it had just claimed with more than the
\* minimum stake (the claim is the last event logged), and has its balance back
C5_Witness ==
    /\ last.op = "release_seat" /\ last.err = "ok"
    /\ eng.events # <<>>
    /\ LET ev == eng.events[Len(eng.events)]
       IN /\ ev.type = "EventSeatClaimed"
          /\ ev.seat_id = last.args.seat_id
          /\ ev.knight = normalize_addr(last.args.caller)
          /\ ev.stake_amount > KON_MIN_STAKE_FOR_SEAT
          /\ eng.seats[ev.seat_id].status = "VACANT"
    /\ seats_claimed_count(eng) = 0
    /\ balance_of(eng, last.args.caller) = KON_INITIAL_SUPPLY

\* fee is floor(x / KON_BASIS_POINTS)
IsFloorOfBasisPoints(fee, x) ==
    fee * KON_BASIS_POINTS <= x /\ x < (fee + 1) * KON_BASIS_POINTS

\* C6: a successful transfer of amount with fee basis b > 0, a non-zero fee
\* recipient, and from, to and fee recipient pairwise distinct debits from by
\* exactly amount, credits to with amount - fee and the fee recipient with
\* fee, where fee = floor(amount * b / 10000); with fee 0 nothing is deducted;
\* 1000 at 50 basis points delivers 995 and 5.
C6_TransferSplitsAmountAndFee ==
    [][(/\ last'.op = "transfer" /\ last'.err = "ok"
        /\ eng.transfer_fee_basis > 0
        /\ eng.fee_recipient # ZERO_ADDRESS
        /\ normalize_addr(last'.args.from_addr) # normalize_addr(last'.args.to_addr)
        /\ normalize_addr(last'.args.from_addr) # eng.fee_recipient
        /\ normalize_addr(last'.args.to_addr) # eng.fee_recipient)
        => LET a      == last'.args
               amount == a.amount
               paid   == balance_of(eng, a.from_addr) - balance_of(eng', a.from_addr)
               got    == balance_of(eng', a.to_addr) - balance_of(eng, a.to_addr)
               fee    == balance_of(eng', eng.fee_recipient) - balance_of(eng, eng.fee_recipient)
           IN /\ IsFloorOfBasisPoints(fee, amount * eng.transfer_fee_basis)
              /\ paid = amount
              /\ got = amount - fee
              /\ (amount * eng.transfer_fee_basis < KON_BASIS_POINTS) => got = amount
              /\ (amount = 1000 /\ eng.transfer_fee_basis = 50) => (got = 995 /\ fee = 5)]_vars

\* governance sent 1000 to the registrar at 50 basis points: 995 and 5
C6_Witness ==
    /\ last.op = "transfer" /\ last.err = "ok"
    /\ last.args.amount = 1000
    /\ eng.transfer_fee_basis = 50
    /\ balance_of(eng, GOVERNANCE_ROUND) = KON_INITIAL_SUPPLY - 1000
    /\ balance_of(eng, SEAT_REGISTRAR) = 995
    /\ balance_of(eng, DEFAULT_FEE_RECIPIENT) = 5

IsDelegated(a) == normalize_addr(a.sender) # normalize_addr(a.from_addr)

\* every allowance entry other than the one of pair is as it was
OtherAllowancesKept(e1, e2, pair) ==
    \A k \in (DOMAIN e1.allowances) \cup (DOMAIN e2.allowances) :
        k # pair => /\ k \in DOMAIN e1.allowances
                    /\ k \in DOMAIN e2.allowances
                    /\ e1.allowances[k] = e2.allowances[k]

\* what C7 says of one transfer call, but for the error of a delegated
\* transfer whose allowance is too small
C7_TransferAndAllowance(e1, e2, a, err) ==
    LET pair == <<normalize_addr(a.from_addr), normalize_addr(a.sender)>>
    IN /\ (IsDelegated(a) /\ err = "ok")
            => /\ allowance(e1, a.from_addr, a.sender) >= a.amount
               /\ allowance(e2, a.from_addr, a.sender)
                    = allowance(e1, a.from_addr, a.sender) - a.amount
               /\ allowance(e2, a.from_addr, a.sender) >= 0
               /\ OtherAllowancesKept(e1, e2, pair)
       /\ (IsDelegated(a) /\ allowance(e1, a.from_addr, a.sender) < a.amount)
            => (err # "ok" /\ e2.allowances = e1.allowances)
       /\ ~IsDelegated(a) => e2.allowances = e1.allowances

\* C7 as stated: a delegated transfer succeeds only with allowance >= amount
\* and then spends exactly the gross amount; otherwise it fails with
\* ExceedsAllowance and the allowance is unchanged; a transfer by from itself
\* changes no allowance; allowances change in no other way than by approve.
C7_DelegatedTransferAsStated ==
    [][/\ (last'.op = "transfer")
            => /\ C7_TransferAndAllowance(eng, eng', last'.args, last'.err)
               /\ (IsDelegated(last'.args)
                    /\ allowance(eng, last'.args.from_addr, last'.args.sender) < last'.args.amount)
                        => last'.err = "ExceedsAllowance"
       /\ (last'.op \notin {"transfer", "approve"}) => eng'.allowances = eng.allowances]_vars

\* C7 amended: as stated, except that a delegated transfer whose allowance is
\* below amount fails with ExceedsAllowance only when the checks made before
\* the allowance check pass (to is not the zero address, amount > 0, from's
\* balance >= amount); when one of them fails it fails with that check's error
\* (TransferToZero, ZeroAmount, ExceedsBalance).  The allowance is unchanged in
\* every failing case.
C7_DelegatedTransferSpendsGross ==
    [][/\ (last'.op = "transfer")
            => /\ C7_TransferAndAllowance(eng, eng', last'.args, last'.err)
               /\ (IsDelegated(last'.args)
                    /\ allowance(eng, last'.args.from_addr, last'.args.sender) < last'.args.amount)
                        => LET a == last'.args
                           IN last'.err =
                                IF normalize_addr(a.to_addr) = ZERO_ADDRESS THEN "TransferToZero"
                                ELSE IF a.amount <= 0 THEN "ZeroAmount"
                                ELSE IF balance_of(eng, a.from_addr) < a.amount THEN "ExceedsBalance"
                                ELSE "ExceedsAllowance"
       /\ (last'.op \notin {"transfer", "approve"}) => eng'.allowances = eng.allowances]_vars

\* the registrar moved the whole 1000 it was allowed out of governance's
\* balance, with a fee charged: the allowance is spent to 0
C7_Witness ==
    /\ last.op = "transfer" /\ last.err = "ok"
    /\ IsDelegated(last.args)
    /\ last.args.amount = 1000
    /\ <<Gov, Registrar>> \in DOMAIN eng.allowances
    /\ allowance(eng, GOVERNANCE_ROUND, SEAT_REGISTRAR) = 0
    /\ balance_of(eng, eng.fee_recipient) > 0

\* C8: a successful approve(owner, spender, X) sets allowance(owner, spender)
\* to X whatever it was, so a second call with the same X leaves it at X; it
\* succeeds whenever owner and spender are non-zero; every other ordered
\* pair's allowance, (spender, owner) included, and every balance is unchanged.
C8_ApproveOverwrites ==
    [][(last'.op = "approve")
        => LET a    == last'.args
               pair == <<normalize_addr(a.owner), normalize_addr(a.spender)>>
               nonzero == pair[1] # ZERO_ADDRESS /\ pair[2] # ZERO_ADDRESS
               again == approve(eng', a.owner, a.spender, a.amount)
           IN /\ nonzero <=> (last'.err = "ok")
              /\ nonzero
                    => /\ allowance(eng', a.owner, a.spender) = a.amount
                       /\ again.err = "ok"
                       /\ allowance(again.eng, a.owner, a.spender) = a.amount
                       /\ again.eng = eng'
                       /\ OtherAllowancesKept(eng, eng', pair)
                       /\ (pair[1] # pair[2])
                            => allowance(eng', a.spender, a.owner) = allowance(eng, a.spender, a.owner)
                       /\ eng'.balances = eng.balances]_vars

\* Two calls have changed the engine and all that differs from a new engine
\* is one allowance: governance approved the registrar for 1000, then for 0.
C8_Witness ==
    /\ last.op = "approve" /\ last.err = "ok" /\ last.changed
    /\ last.args.amount = 0
    /\ opsLeft = MaxOps - 2
    /\ DOMAIN eng.allowances = {<<Gov, Registrar>>}
    /\ allowance(eng, GOVERNANCE_ROUND, SEAT_REGISTRAR) = 0
    /\ [eng EXCEPT !.allowances = EmptyDict]
            = mint(NewEngine, GOVERNANCE_ROUND, KON_INITIAL_SUPPLY).eng

\* an owner is recorded for exactly the minted items
OwnerIffMinted(e) == \A i \in TokenIds : (i \in DOMAIN e.kok_owners) <=> e.kok_minted[i]

\* C9: for each of the 16 collectible ids an owner is recorded iff the item is
\* minted, in every reachable state; and a minted item stays minted and keeps
\* an owner whatever is called.
C9_OwnerIffMintedAndMonotone ==
    /\ []OwnerIffMinted(eng)
    /\ [][\A i \in TokenIds :
            eng.kok_minted[i] => (eng'.kok_minted[i] /\ i \in DOMAIN eng'.kok_owners)]_vars

\* the last item was minted and then moved to another owner
C9_Witness ==
    /\ last.op = "transfer_kok" /\ last.err = "ok" /\ last.changed
    /\ last.args.token_id = KOK_COLLECTION_SIZE - 1
    /\ eng.kok_minted[KOK_COLLECTION_SIZE - 1]
    /\ eng.kok_owners[KOK_COLLECTION_SIZE - 1] = normalize_addr(last.args.to_addr)
    /\ kok_minted_count(eng) = 1

\* C10: mint_kok on an already minted id fails with KOKAlreadyMinted for
\* every caller and every destination, and changes nothing: not the minted
\* flag, not the owner, not the event log.
C10_SecondMintFails ==
    [][(/\ last'.op = "mint_kok"
        /\ last'.args.token_id \in TokenIds
        /\ eng.kok_minted[last'.args.token_id])
        => /\ last'.err = "KOKAlreadyMinted"
           /\ eng'.kok_minted = eng.kok_minted
           /\ eng'.kok_owners = eng.kok_owners
           /\ eng'.events = eng.events
           /\ eng' = eng]_vars

\* a caller that is not the registrar minted to the zero address an item that
\* was minted and then transferred: KOKAlreadyMinted, and the owner is still
\* the one the transfer set
C10_Witness ==
    /\ last.op = "mint_kok" /\ last.err = "KOKAlreadyMinted"
    /\ normalize_addr(last.args.caller) # Registrar
    /\ normalize_addr(last.args.to_addr) = ZERO_ADDRESS
    /\ eng.kok_minted[last.args.token_id]
    /\ eng.kok_owners[last.args.token_id] = Gov
    /\ Len(eng.events) = 1
    /\ eng.events[1] = EventKOKMinted(last.args.token_id, Registrar)

\* the recorded owner of item i, or <<>> when none is recorded
OwnerOf(e, i) == Get(e.kok_owners, i, <<>>)

\* C11: the recorded owner of a collectible changes only in a successful
\* transfer_kok of that item whose normalized sender and from are both the
\* owner recorded before the call and whose to is not the zero address (an
\* owner is first recorded only by a successful mint_kok of that item); a
\* transfer_kok with an out-of-range id, on an unminted item, with from not the
\* recorded owner or with sender other than from fails and leaves every
\* recorded owner as it was, whatever allowances the sender holds.
C11_OnlyOwnerMovesCollectible ==
    [][/\ \A i \in TokenIds :
            OwnerOf(eng', i) # OwnerOf(eng, i)
                => LET a == last'.args
                   IN IF i \in DOMAIN eng.kok_owners
                      THEN /\ last'.op = "transfer_kok" /\ last'.err = "ok"
                           /\ a.token_id = i
                           /\ normalize_addr(a.sender) = eng.kok_owners[i]
                           /\ normalize_addr(a.from_addr) = eng.kok_owners[i]
                           /\ normalize_addr(a.to_addr) # ZERO_ADDRESS
                           /\ eng'.kok_owners[i] = normalize_addr(a.to_addr)
                      ELSE /\ last'.op = "mint_kok" /\ last'.err = "ok"
                           /\ a.token_id = i
       /\ (last'.op = "transfer_kok")
            => LET a == last'.args
               IN /\ (a.token_id \notin TokenIds) => last'.err = "KOKIndexOutOfRange"
                  /\ (/\ a.token_id \in TokenIds
                      /\ \/ ~eng.kok_minted[a.token_id]
                         \/ OwnerOf(eng, a.token_id) # normalize_addr(a.from_addr)
                         \/ normalize_addr(a.sender) # normalize_addr(a.from_addr))
                        => last'.err = "NotKOKOwner"
                  /\ (last'.err # "ok") => eng'.kok_owners = eng.kok_owners]_vars

\* governance owns item 0 and has approved the registrar for 1000; the
\* registrar's transfer_kok of the item out of governance's hands is refused
C11_Witness ==
    /\ last.op = "transfer_kok" /\ last.err = "NotKOKOwner"
    /\ last.args.token_id = 0
    /\ normalize_addr(last.args.from_addr) = Gov
    /\ normalize_addr(last.args.sender) = Registrar
    /\ allowance(eng, GOVERNANCE_ROUND, SEAT_REGISTRAR) = 1000
    /\ OwnerOf(eng, 0) = Gov

\* C12: claim_seat fails with InvalidSeatId when seat_id is outside [0, 150);
\* otherwise with TableNotUnlocked when the table is locked; otherwise with
\* SeatAlreadyClaimed when the seat is not VACANT; otherwise with
\* InsufficientStake when stake < KON_MIN_STAKE_FOR_SEAT; otherwise with
\* ExceedsBalance when the knight's balance < stake; otherwise it succeeds.
\* A failed claim leaves balances, seats, reverse index and event log as they
\* were, and no seat becomes CLAIMED in a step taken while the table is locked.
C12_ClaimSeatChecksInOrder ==
    [][/\ (last'.op = "claim_seat")
            => LET a == last'.args
                   expected ==
                     IF a.seat_id \notin SeatIds THEN "InvalidSeatId"
                     ELSE IF ~eng.table_unlocked THEN "TableNotUnlocked"
                     ELSE IF eng.seats[a.seat_id].status # "VACANT" THEN "SeatAlreadyClaimed"
                     ELSE IF a.stake_amount < KON_MIN_STAKE_FOR_SEAT THEN "InsufficientStake"
                     ELSE IF balance_of(eng, a.knight) < a.stake_amount THEN "ExceedsBalance"
                     ELSE "ok"
               IN /\ last'.err = expected
                  /\ (last'.err # "ok")
                        => /\ eng'.balances = eng.balances
                           /\ eng'.seats = eng.seats
                           /\ eng'.seat_by_knight = eng.seat_by_knight
                           /\ eng'.events = eng.events
       /\ ~eng.table_unlocked
            => \A i \in SeatIds :
                    eng'.seats[i].status = "CLAIMED" => eng.seats[i].status = "CLAIMED"]_vars

\* on an unlocked table the registrar, who holds no tokens, claimed a vacant
\* seat with a stake below the minimum: InsufficientStake, and nothing changed
C12_Witness ==
    /\ last.op = "claim_seat" /\ last.err = "InsufficientStake"
    /\ ~last.changed
    /\ eng.table_unlocked
    /\ normalize_addr(last.args.knight) = Registrar
    /\ balance_of(eng, SEAT_REGISTRAR) < last.args.stake_amount
    /\ eng.seats[last.args.seat_id].status = "VACANT"
    /\ seats_claimed_count(eng) = 1

\* C13: batch_claim_seats with more than 50 entries fails with
\* ClaimBatchTooLarge and leaves the engine (balances, seats, reverse index,
\* event log) as it was, whether or not its entries would have succeeded; a
\* batch of at most 50 entries, one of exactly 50 included, never fails with
\* ClaimBatchTooLarge.
C13_BatchSizeLimit ==
    [][(last'.op = "batch_claim_seats")
        => LET claims == last'.args.claims
           IN /\ (Len(claims) > MAX_CLAIM_PER_TX)
                    => /\ last'.err = "ClaimBatchTooLarge"
                       /\ eng'.balances = eng.balances
                       /\ eng'.seats = eng.seats
                       /\ eng'.seat_by_knight = eng.seat_by_knight
                       /\ eng'.events = eng.events
                       /\ eng' = eng
              /\ (Len(claims) <= MAX_CLAIM_PER_TX) => last'.err # "ClaimBatchTooLarge"
              /\ (Len(claims) = MAX_CLAIM_PER_TX /\ claim_each(eng, claims, last'.args.block_num).err = "ok")
                    => (last'.err = "ok" /\ seats_claimed_count(eng') = seats_claimed_count(eng) + MAX_CLAIM_PER_TX)]_vars

\* after the unlock and a batch of exactly 50 claims that went through, a batch
\* of 51 was refused although the claim of its first entry would succeed
C13_Witness ==
    /\ last.op = "batch_claim_seats" /\ last.err = "ClaimBatchTooLarge"
    /\ Len(last.args.claims) = MAX_CLAIM_PER_TX + 1
    /\ seats_claimed_count(eng) = MAX_CLAIM_PER_TX
    /\ Len(eng.events) = MAX_CLAIM_PER_TX + 1
    /\ LET c == last.args.claims[1]
       IN claim_seat(eng, c[1], c[2], c[3], last.args.block_num).err = "ok"

\* claim_seat called for the entries of claims one after the other, up to the
\* first call that raises: the engine the calls that returned have produced,
\* how many they are (counted on from done), and "ok" or the error raised
RECURSIVE SequentialClaims(_, _, _, _)
SequentialClaims(e, claims, block_num, done) ==
    IF claims = <<>> THEN [eng |-> e, err |-> "ok", applied |-> done]
    ELSE LET c == Head(claims)
             r == claim_seat(e, c[1], c[2], c[3], block_num)
         IN IF r.err = "ok"
            THEN SequentialClaims(r.eng, Tail(claims), block_num, done + 1)
            ELSE [eng |-> e, err |-> r.err, applied |-> done]

\* the stakes of the first n entries of claims, added up
RECURSIVE StakeOfFirst(_, _)
StakeOfFirst(claims, n) == IF n = 0 THEN 0 ELSE claims[n][3] + StakeOfFirst(claims, n - 1)

\* C14: batch_claim_seats with at most 50 entries is claim_seat applied to the
\* entries in order.  When every claim succeeds the batch succeeds and the
\* state is the one the claims produce.  When entry k + 1 is the first whose
\* claim fails, the batch raises that claim's error and the state is the one
\* produced by the k claims before it: their stakes are debited, their seats
\* CLAIMED, one event appended for each, and no later entry is applied.
C14_BatchIsSequentialClaims ==
    [][(last'.op = "batch_claim_seats" /\ Len(last'.args.claims) <= MAX_CLAIM_PER_TX)
        => LET claims == last'.args.claims
               seq    == SequentialClaims(eng, claims, last'.args.block_num, 0)
               k      == seq.applied
           IN /\ eng' = seq.eng
              /\ last'.err = seq.err
              /\ (k < Len(claims)) <=> (last'.err # "ok")
              /\ SumBalances(eng') = SumBalances(eng) - StakeOfFirst(claims, k)
              /\ Len(eng'.events) = Len(eng.events) + k
              /\ seats_claimed_count(eng') = seats_claimed_count(eng) + k
              /\ \A n \in 1..k :
                    /\ eng'.seats[claims[n][1]].status = "CLAIMED"
                    /\ eng'.seats[claims[n][1]].stake_amount = claims[n][3]
                    /\ eng'.events[Len(eng.events) + n]
                            = EventSeatClaimed(claims[n][1], normalize_addr(claims[n][2]), claims[n][3])
              /\ \A n \in (k + 1)..Len(claims) :
                    (claims[n][1] \in SeatIds /\ \A m \in 1..k : claims[m][1] # claims[n][1])
                        => eng'.seats[claims[n][1]] = eng.seats[claims[n][1]]]_vars

\* a batch of two claims of one seat: the first went through, the second
\* raised SeatAlreadyClaimed, and the first is still applied
C14_Witness ==
    /\ last.op = "batch_claim_seats" /\ last.err = "SeatAlreadyClaimed"
    /\ last.changed
    /\ Len(last.args.claims) = 2
    /\ eng.seats[last.args.claims[1][1]].status = "CLAIMED"
    /\ eng.seats[last.args.claims[1][1]].occupant = Gov
    /\ balance_of(eng, GOVERNANCE_ROUND) = KON_INITIAL_SUPPLY - KON_MIN_STAKE_FOR_SEAT
    /\ eng.events[Len(eng.events)].type = "EventSeatClaimed"

\* C15: the table-unlocked flag changes only in a successful
\* set_table_unlocked step whose normalized caller is the governance address;
\* set_table_unlocked by any other caller fails with NotGovernance and leaves
\* the flag, the unlock block and the event log as they were; no other
\* operation changes the flag.
C15_OnlyGovernanceUnlocks ==
    [][/\ (eng'.table_unlocked # eng.table_unlocked)
            => /\ last'.op = "set_table_unlocked" /\ last'.err = "ok"
               /\ normalize_addr(last'.args.caller) = Gov
               /\ eng'.table_unlocked = last'.args.unlocked
       /\ (last'.op = "set_table_unlocked")
            => IF normalize_addr(last'.args.caller) = Gov
               THEN last'.err = "ok" /\ eng'.table_unlocked = last'.args.unlocked
               ELSE /\ last'.err = "NotGovernance"
                    /\ eng'.table_unlocked = eng.table_unlocked
                    /\ eng'.unlock_block = eng.unlock_block
                    /\ eng'.events = eng.events
       /\ (last'.op # "set_table_unlocked")
            => /\ eng'.table_unlocked = eng.table_unlocked
               /\ eng'.unlock_block = eng.unlock_block]_vars

\* governance has unlocked the table and the registrar's call to lock it again
\* was refused: the table is still unlocked and the log holds the one unlock
C15_Witness ==
    /\ last.op = "set_table_unlocked" /\ last.err = "NotGovernance"
    /\ normalize_addr(last.args.caller) = Registrar
    /\ ~last.args.unlocked
    /\ eng.table_unlocked
    /\ Len(eng.events) = 1
    /\ eng.events[1].type = "EventTableUnlocked"
    /\ eng.events[1].unlocked_by = Gov

\* C16: the transfer fee basis is at most 250 in every reachable state, and a
\* successful transfer delivers gross minus a fee of at most 2.5% of the gross
\* amount.  set_transfer_fee by a caller other than governance fails with
\* NotGovernance, by governance with basis > 250 fails with FeeBasisTooHigh,
\* so no call with basis > 250 succeeds; set_fee_recipient by a caller other
\* than governance fails with NotGovernance; a failed call of either leaves
\* the fee basis and the fee recipient as they were.
C16_FeeBasisCapped ==
    /\ [](eng.transfer_fee_basis <= KON_MAX_FEE_BASIS)
    /\ [][/\ (last'.op = "transfer" /\ last'.err = "ok")
                => LET gross == last'.args.amount
                       net   == eng'.events[Len(eng'.events)].amount
                   IN /\ 0 <= gross - net
                      /\ (gross - net) * KON_BASIS_POINTS <= gross * KON_MAX_FEE_BASIS
                      /\ SumOver(eng'.balances, DOMAIN eng'.balances
                                    \ {normalize_addr(last'.args.from_addr), normalize_addr(last'.args.to_addr)})
                            - SumOver(eng.balances, DOMAIN eng.balances
                                    \ {normalize_addr(last'.args.from_addr), normalize_addr(last'.args.to_addr)})
                            <= gross - net
          /\ (last'.op = "set_transfer_fee")
                => /\ last'.err =
                        IF normalize_addr(last'.args.caller) # Gov THEN "NotGovernance"
                        ELSE IF last'.args.basis > KON_MAX_FEE_BASIS THEN "FeeBasisTooHigh"
                        ELSE "ok"
                   /\ (last'.args.basis > KON_MAX_FEE_BASIS) => last'.err # "ok"
          /\ (last'.op = "set_fee_recipient" /\ normalize_addr(last'.args.caller) # Gov)
                => last'.err = "NotGovernance"
          /\ (last'.op \in {"set_transfer_fee", "set_fee_recipient"} /\ last'.err # "ok")
                => /\ eng'.transfer_fee_basis = eng.transfer_fee_basis
                   /\ eng'.fee_recipient = eng.fee_recipient]_vars

\* governance raised the fee to the cap of 250 and a transfer of 1000 was then
\* charged 25 and delivered 975
C16_Witness ==
    /\ last.op = "transfer" /\ last.err = "ok"
    /\ last.args.amount = 1000
    /\ eng.transfer_fee_basis = KON_MAX_FEE_BASIS
    /\ eng.events[Len(eng.events)].amount = 975
    /\ balance_of(eng, eng.fee_recipient) = 25

\* C17: right after construction total_supply() is KON_INITIAL_SUPPLY, the
\* governance address holds exactly that and every other balance is 0, all
\* 150 seats are VACANT with empty occupant and zero stake, all 16
\* collectibles are unminted and have no owner, the table is locked and the
\* event log is empty.
C17_StateAfterConstruction ==
    (last.op = "__init__")
        => /\ total_supply(eng) = KON_INITIAL_SUPPLY
           /\ KON_INITIAL_SUPPLY = 1000000000 * KON_SCALE
           /\ balance_of(eng, GOVERNANCE_ROUND) = KON_INITIAL_SUPPLY
           /\ \A a \in AddrStrings :
                normalize_addr(a) # Gov => balance_of(eng, a) = 0
           /\ DOMAIN eng.balances = {Gov}
           /\ DOMAIN eng.seats = SeatIds
           /\ Cardinality(SeatIds) = 150
           /\ \A i \in SeatIds :
                /\ eng.seats[i].status = "VACANT"
                /\ eng.seats[i].occupant = <<>>
                /\ eng.seats[i].stake_amount = 0
           /\ eng.seat_by_knight = EmptyDict
           /\ DOMAIN eng.kok_minted = TokenIds
           /\ Cardinality(TokenIds) = 16
           /\ \A i \in TokenIds : ~eng.kok_minted[i] /\ i \notin DOMAIN eng.kok_owners
           /\ ~eng.table_unlocked
           /\ eng.events = <<>>
           /\ seats_claimed_count(eng) = 0
           /\ kok_minted_count(eng) = 0

\* the engine as the constructor leaves it, before any call
C17_Witness ==
    /\ last.op = "__init__"
    /\ opsLeft = MaxOps
    /\ total_supply(eng) = KON_INITIAL_SUPPLY
    /\ balance_of(eng, GovernanceAlias) = KON_INITIAL_SUPPLY
    /\ seats_claimed_count(eng) = 0

\* the engine with its event log emptied
WithoutLog(e) == [e EXCEPT !.events = <<>>]

\* a call made on an engine whose log holds log and the same call made on that
\* engine with the log emptied: the same error or none, the same engine but
\* for the log, and the same records appended
SameButLog(r1, r2, log) ==
    /\ r1.err = r2.err
    /\ WithoutLog(r1.eng) = WithoutLog(r2.eng)
    /\ r1.eng.events = log \o r2.eng.events

\* every call of the engine has the same outcome on e as on e with its log
\* emptied
LogNeverConsulted(e) ==
    LET c == WithoutLog(e)
        log == e.events
    IN /\ \A unlocked \in BOOLEAN, caller \in CallerInputs, now \in ClockInputs :
            SameButLog(set_table_unlocked(e, unlocked, caller, now),
                       set_table_unlocked(c, unlocked, caller, now), log)
       /\ \A from_addr \in HolderInputs, to_addr \in DestInputs, amount \in AmountInputs, sender \in CallerInputs :
            SameButLog(transfer(e, from_addr, to_addr, amount, sender),
                       transfer(c, from_addr, to_addr, amount, sender), log)
       /\ \A owner \in OwnerInputs, spender \in DestInputs, amount \in AllowanceInputs :
            SameButLog(approve(e, owner, spender, amount), approve(c, owner, spender, amount), log)
       /\ \A basis \in BasisInputs, caller \in CallerInputs :
            SameButLog(set_transfer_fee(e, basis, caller), set_transfer_fee(c, basis, caller), log)
       /\ \A recipient \in RecipientInputs, caller \in CallerInputs :
            SameButLog(set_fee_recipient(e, recipient, caller), set_fee_recipient(c, recipient, caller), log)
       /\ \A seat_id \in SeatIdInputs, knight \in CallerInputs, stake \in StakeInputs, block_num \in BlockInputs :
            SameButLog(claim_seat(e, seat_id, knight, stake, block_num),
                       claim_seat(c, seat_id, knight, stake, block_num), log)
       /\ \A seat_id \in SeatIdInputs, caller \in CallerInputs, block_num \in BlockInputs :
            SameButLog(release_seat(e, seat_id, caller, block_num),
                       release_seat(c, seat_id, caller, block_num), log)
       /\ \A claims \in BatchInputs, block_num \in BlockInputs :
            SameButLog(batch_claim_seats(e, claims, block_num),
                       batch_claim_seats(c, claims, block_num), log)
       /\ \A token_id \in TokenIdInputs, to_addr \in DestInputs, caller \in CallerInputs :
            SameButLog(mint_kok(e, token_id, to_addr, caller), mint_kok(c, token_id, to_addr, caller), log)
       /\ \A token_id \in TokenIdInputs, from_addr \in HolderInputs, to_addr \in DestInputs, sender \in CallerInputs :
            SameButLog(transfer_kok(e, token_id, from_addr, to_addr, sender),
                       transfer_kok(c, token_id, from_addr, to_addr, sender), log)
       /\ \A addr \in AddrStrings :
            /\ balance_of(e, addr) = balance_of(c, addr)
            /\ has_round_table_access(e, addr) = has_round_table_access(c, addr)
       /\ total_supply(e) = total_supply(c)
       /\ seats_claimed_count(e) = seats_claimed_count(c)
       /\ kok_minted_count(e) = kok_minted_count(c)

\* the record a successful call of one of the four logging methods appends
LoggedRecord(e, op, a) ==
    CASE op = "transfer" ->
            LET fee == IF e.transfer_fee_basis > 0 /\ e.fee_recipient # ZERO_ADDRESS
                       THEN (a.amount * e.transfer_fee_basis) \div KON_BASIS_POINTS
                       ELSE 0
            IN EventTransfer(normalize_addr(a.from_addr), normalize_addr(a.to_addr), a.amount - fee)
      [] op = "claim_seat" ->
            EventSeatClaimed(a.seat_id, normalize_addr(a.knight), a.stake_amount)
      [] op = "mint_kok" ->
            EventKOKMinted(a.token_id, normalize_addr(a.to_addr))

LoggingOps == {"transfer", "claim_seat", "mint_kok", "set_table_unlocked"}

\* what C18 says of one step, but for what a failed call appends
C18_LogStep ==
    /\ (last'.op \in {"transfer", "claim_seat", "mint_kok"} /\ last'.err = "ok")
            => eng'.events = Append(eng.events, LoggedRecord(eng, last'.op, last'.args))
    /\ (last'.op = "set_table_unlocked" /\ last'.err = "ok")
            => /\ Len(eng'.events) = Len(eng.events) + 1
               /\ SubSeq(eng'.events, 1, Len(eng.events)) = eng.events
               /\ eng'.events[Len(eng'.events)].type = "EventTableUnlocked"
               /\ eng'.events[Len(eng'.events)].unlocked_by = normalize_addr(last'.args.caller)
               /\ eng'.events[Len(eng'.events)].block_ts = eng'.unlock_block
    /\ (last'.op # "clear_events")
            => /\ Len(eng'.events) >= Len(eng.events)
               /\ SubSeq(eng'.events, 1, Len(eng.events)) = eng.events
    /\ (last'.op = "clear_events")
            => /\ last'.err = "ok"
               /\ eng' = WithoutLog(eng)
               /\ LogNeverConsulted(eng)

\* C18 as stated: each successful transfer, claim_seat, mint_kok and
\* set_table_unlocked appends exactly one record (the transfer's with the net
\* amount), every failed operation appends none, only clear_events removes or
\* alters a record, and clear_events changes nothing but the log, so that
\* every later call has the same outcome with the log cleared as without.
C18_LogAsStated ==
    [][/\ C18_LogStep
       /\ (last'.err # "ok") => eng'.events = eng.events]_vars

\* C18 amended: as stated, except that the failed operations that append
\* nothing are the single operations; a batch_claim_seats that fails at entry
\* k + 1 has appended the k records of the claims made before it.
C18_LogAppendOnly ==
    [][/\ C18_LogStep
       /\ (last'.err # "ok" /\ last'.op # "batch_claim_seats") => eng'.events = eng.events
       /\ (last'.err # "ok" /\ last'.op = "batch_claim_seats")
            => LET claims == last'.args.claims
                   k == IF Len(claims) > MAX_CLAIM_PER_TX THEN 0
                        ELSE SequentialClaims(eng, claims, last'.args.block_num, 0).applied
               IN /\ Len(eng'.events) = Len(eng.events) + k
                  /\ \A n \in 1..k :
                        eng'.events[Len(eng.events) + n]
                            = EventSeatClaimed(claims[n][1], normalize_addr(claims[n][2]), claims[n][3])]_vars

\* the unlock was logged, the log was cleared, and a batch then failed at its
\* second entry: the log holds the record of the first entry's claim alone
C18_Witness ==
    /\ last.op = "batch_claim_seats" /\ last.err = "SeatAlreadyClaimed"
    /\ eng.table_unlocked
    /\ Len(eng.events) = 1
    /\ eng.events[1] = EventSeatClaimed(last.args.claims[1][1], Gov, KON_MIN_STAKE_FOR_SEAT)
    /\ seats_claimed_count(eng) = 1

\* C19: whatever a caller writes to a value get_kok_metadata returned, to the
\* dict, to its attributes list or to a trait entry in the list, a later
\* get_kok_metadata call returns for every item id what the table held when
\* it was loaded.
C19_MetadataNeverCorrupted ==
    \A i \in TokenIds :
        LET m == get_kok_metadata(metadata, i)
        IN /\ Len(m) = 1
           /\ MetadataValue(metadata, m[1]) = KOK_METADATA[i + 1]

\* the stakes recorded in the seats, added up: each amount that occurs, times
\* the number of seats that record it
SumStakes(e) ==
    LET amounts == {e.seats[i].stake_amount : i \in SeatIds}
    IN SumOver([v \in amounts |-> v * Cardinality({i \in SeatIds : e.seats[i].stake_amount = v})],
               amounts)

\* C20: in every reachable state, those after a call that raised included,
\* the sum of all balances plus the sum of stake_amount over all seats equals
\* total_supply(): a stake debited by a claim is recorded in a CLAIMED seat
\* or has been credited back.
C20_StakesConserved ==
    /\ SumBalances(eng) + SumStakes(eng) = total_supply(eng)
    /\ \A i \in SeatIds : eng.seats[i].stake_amount > 0 => eng.seats[i].status = "CLAIMED"

\* C21: the stored fee recipient is the zero address in no reachable state:
\* set_fee_recipient by governance fails with ZeroAddress for every string
\* that normalizes to the zero address, whether or not it is the 0x-prefixed
\* string of 40 zeros, and leaves the fee recipient as it was, so that no
\* transfer made while a fee basis is set goes without a fee recipient.
C21_FeeRecipientNeverZero ==
    /\ [](eng.fee_recipient # ZERO_ADDRESS)
    /\ [][(/\ last'.op = "set_fee_recipient"
           /\ normalize_addr(last'.args.caller) = Gov
           /\ normalize_addr(last'.args.recipient) = ZERO_ADDRESS)
            => /\ last'.err = "ZeroAddress"
               /\ eng'.fee_recipient = eng.fee_recipient]_vars

\* C22: a successful transfer leaves the sum of all balances unchanged and
\* every balance non-negative whichever of from, to and the fee recipient
\* coincide: each address ends with its balance before the transfer, less the
\* gross amount if it is from, plus the net amount if it is to, plus the fee
\* if it is the fee recipient.  In a self-transfer the sender ends with its
\* balance less the fee, the fee coming back to it when it is the fee
\* recipient as well.
C22_TransferConservesUnderAliasing ==
    [][(last'.op = "transfer" /\ last'.err = "ok")
        => LET from_addr == normalize_addr(last'.args.from_addr)
               to_addr   == normalize_addr(last'.args.to_addr)
               recipient == eng.fee_recipient
               gross     == last'.args.amount
               fee       == transfer_fee(eng, gross)
               net       == gross - fee
               Expected(x) == Get(eng.balances, x, 0)
                                - (IF x = from_addr THEN gross ELSE 0)
                                + (IF x = to_addr THEN net ELSE 0)
                                + (IF x = recipient THEN fee ELSE 0)
           IN /\ SumBalances(eng') = SumBalances(eng)
              /\ DOMAIN eng.balances \subseteq DOMAIN eng'.balances
              /\ \A x \in DOMAIN eng'.balances :
                    /\ eng'.balances[x] >= 0
                    /\ eng'.balances[x] = Expected(x)
              /\ fee >= 0 /\ net >= 0
              /\ from_addr = to_addr
                    => Get(eng'.balances, from_addr, 0)
                         = Get(eng.balances, from_addr, 0)
                             - (IF from_addr = recipient THEN 0 ELSE fee)]_vars

\* a self-transfer succeeded and charged a fee that went to another address
C22_Witness ==
    /\ last.op = "transfer" /\ last.err = "ok"
    /\ normalize_addr(last.args.from_addr) = normalize_addr(last.args.to_addr)
    /\ eng.events[Len(eng.events)].amount < last.args.amount
    /\ eng.fee_recipient # normalize_addr(last.args.from_addr)
    /\ balance_of(eng, eng.fee_recipient) > 0
    /\ SumBalances(eng) = total_supply(eng)

====
